---- MODULE Spec2Model ----
(***************************************************************************)
(* TransparentCache (package sample1, cache.go): a cache in front of a     *)
(* slow, fallible PriceService.  GetPriceFor resolves one item code,       *)
(* GetPricesFor resolves several item codes in one errgroup.               *)
(*                                                                         *)
(* Every goroutine is a process with a position pc; one action is one      *)
(* step on shared state (the sync.Map, the results slice, the mutex, the   *)
(* errgroup's error) or one upstream call.                                 *)
(***************************************************************************)
EXTENDS Integers, Sequences, FiniteSets, TLC

\* ---------------------------------------------------------------- bounds
MaxPrice == 2      \* upstream prices are 1..MaxPrice
MaxTime == 2       \* the clock runs 0..MaxTime
MaxAge == 1        \* maxAge is drawn from 1..MaxAge at construction
MaxCalls == 3      \* upstream invocations in one behaviour
MaxBatch == 2      \* length of the itemCodes of GetPricesFor

Keys == {"A", "B"}
Prices == 1..MaxPrice
Errors == {"e1", "e2"}
Tasks == 1..MaxBatch
\* two goroutines calling GetPriceFor directly
Callers == {MaxBatch + 1, MaxBatch + 2}
Procs == Tasks \cup Callers

VARIABLES
  prices,      \* c.prices: the sync.Map, item code -> price
  maxAge,      \* c.maxAge
  pc,          \* position of every goroutine
  ic,          \* the item code a goroutine works on
  up,          \* GetPriceFor's locals price, err after the upstream call
  ret,         \* the price, err a goroutine holds from its lookup
  itemCodes,   \* GetPricesFor's argument
  results,     \* GetPricesFor's results slice
  mu,          \* GetPricesFor's mutex: 0 unlocked, else the task holding it
  gerr,        \* the errgroup's first error
  bpc,         \* position of the GetPricesFor call
  bret,        \* what GetPricesFor returned
  now,         \* the wall clock
  calls,       \* history: upstream invocations per item code
  fetchedAt,   \* history: when the stored price came back from upstream
  lastFailed,  \* history: the latest GetPriceFor return for the code was a
               \* failure and no call for the code has entered since
  alone,       \* history: no other call for the same code overlapped this one
  failedAlone, \* history: lastFailed, and that failed call was alone
  failOrder,   \* history: the errors of the batch's tasks, in failing order
  returned,    \* history: the prices upstream has returned per item code
  snap         \* history: the store and call counts when a lone call began

vars == <<prices, maxAge, pc, ic, up, ret, itemCodes, results, mu, gerr, bpc,
          bret, now, calls, fetchedAt, lastFailed, alone, failedAlone,
          failOrder, returned, snap>>

cacheVars == <<prices, fetchedAt>>
histVars == <<lastFailed, alone, failedAlone>>
batchVars == <<itemCodes, results, mu, gerr, bpc, bret, failOrder>>
\* the history kept only by the specifications that observe it
obsVars == <<returned, snap>>

\* ------------------------------------------------------------- values
NoErr == "nil"
\* the zero values of a (float64, error) pair
Zero == [price |-> 0, err |-> NoErr, at |-> 0]

\* fmt.Errorf("getting price from service : %v", err.Error())
Wrap(e) == "getting price from service : " \o e

\* a Store that drops the other keys of the map
Put_Clobber(f, k, v) == [x \in {k} |-> v]

\* sync.Map.Store(k, v)
Put(f, k, v) == [x \in DOMAIN f \cup {k} |-> IF x = k THEN v ELSE f[x]]

RECURSIVE SumCalls(_)
SumCalls(S) ==
  IF S = {} THEN 0
  ELSE LET k == CHOOSE x \in S : TRUE IN calls[k] + SumCalls(S \ {k})

\* upstream invocations still owed to lookups already under way
Pending == Cardinality({p \in Procs : pc[p] \in {"t57", "t63", "upstream"}})
Budget == MaxCalls - SumCalls(Keys) - Pending

\* the other goroutines that are inside GetPriceFor(k)
OthersIn(p, k) ==
  {q \in Procs \ {p} : ic[q] = k /\ pc[q] \in {"upstream", "fetched"}}

\* where GetPriceFor returns to
RetPc(p) == IF p \in Tasks THEN "t64" ELSE "done"

\* the store and the upstream call counts, as a lone call finds them
Snapshot == [prices |-> prices, fetchedAt |-> fetchedAt, calls |-> calls]

\* ------------------------------------------------------------- Init
Init ==
  /\ prices = << >>
  /\ maxAge \in 1..MaxAge
  /\ pc = [p \in Procs |-> IF p \in Tasks THEN "off" ELSE "idle"]
  /\ ic = [p \in Procs |-> "A"]
  /\ up = [p \in Procs |-> Zero]
  /\ ret = [p \in Procs |-> Zero]
  /\ itemCodes = << >>
  /\ results = << >>
  /\ mu = 0
  /\ gerr = NoErr
  /\ bpc = "idle"
  /\ bret = [prices |-> << >>, err |-> NoErr]
  /\ now = 0
  /\ calls = [k \in Keys |-> 0]
  /\ fetchedAt = << >>
  /\ lastFailed = [k \in Keys |-> FALSE]
  /\ alone = [p \in Procs |-> TRUE]
  /\ failedAlone = [k \in Keys |-> FALSE]
  /\ failOrder = << >>
  /\ returned = [k \in Keys |-> {}]
  /\ snap = [prices |-> << >>, fetchedAt |-> << >>,
             calls |-> [k \in Keys |-> 0]]

\* ------------------------------------------------------- GetPriceFor
\* cache.go:35-36  price, ok := c.prices.Load(itemCode)
Hit(k) == k \in DOMAIN prices

\* a hit that asks upstream all the same and stores the answer
LoadHit_Refetch(p, k) ==
  /\ ret' = [ret EXCEPT ![p] =
               [price |-> prices[k], err |-> NoErr, at |-> fetchedAt[k]]]
  /\ pc' = [pc EXCEPT ![p] = RetPc(p)]
  /\ calls' = [calls EXCEPT ![k] = @ + 1]
  /\ fetchedAt' = Put(fetchedAt, k, now)
  /\ UNCHANGED <<prices, up>>

\* a hit that returns the price stored for another item code
LoadHit_WrongKey(p, k) ==
  /\ ret' = [ret EXCEPT ![p] =
               LET x == IF DOMAIN prices = {k} THEN k
                        ELSE CHOOSE y \in DOMAIN prices : y # k
               IN [price |-> prices[x], err |-> NoErr, at |-> fetchedAt[x]]]
  /\ pc' = [pc EXCEPT ![p] = RetPc(p)]
  /\ UNCHANGED <<cacheVars, calls, up>>

\* a hit that deletes the entry it found
LoadHit_Evicts(p, k) ==
  /\ ret' = [ret EXCEPT ![p] =
               [price |-> prices[k], err |-> NoErr, at |-> fetchedAt[k]]]
  /\ pc' = [pc EXCEPT ![p] = RetPc(p)]
  /\ prices' = [x \in DOMAIN prices \ {k} |-> prices[x]]
  /\ fetchedAt' = [x \in DOMAIN fetchedAt \ {k} |-> fetchedAt[x]]
  /\ UNCHANGED <<calls, up>>

\* cache.go:36-39  if ok { return price.(float64), nil }
LoadHit(p, k) ==
  /\ ret' = [ret EXCEPT ![p] =
               [price |-> prices[k], err |-> NoErr, at |-> fetchedAt[k]]]
  /\ pc' = [pc EXCEPT ![p] = RetPc(p)]
  /\ UNCHANGED <<cacheVars, calls, up>>

\* a miss that waits for a call already under way instead of calling upstream
LoadMiss_SingleFlight(p, k) ==
  /\ pc' = [pc EXCEPT ![p] =
              IF OthersIn(p, k) # {} THEN RetPc(p) ELSE "upstream"]
  /\ UNCHANGED <<cacheVars, calls, up, ret>>

\* cache.go:35-40  the key is absent: go on to the upstream call
LoadMiss(p, k) ==
  /\ pc' = [pc EXCEPT ![p] = "upstream"]
  /\ UNCHANGED <<cacheVars, calls, up, ret>>

\* cache.go:34-39  entering GetPriceFor(k): the Load and its branch
Load(p, k) ==
  /\ ic' = [ic EXCEPT ![p] = k]
  /\ lastFailed' = [lastFailed EXCEPT ![k] = FALSE]
  /\ failedAlone' = [failedAlone EXCEPT ![k] = FALSE]
  /\ alone' = [q \in Procs |->
                IF q = p THEN Hit(k) \/ OthersIn(p, k) = {}
                ELSE IF q \in OthersIn(p, k) THEN FALSE ELSE alone[q]]
  /\ IF Hit(k) THEN LoadHit(p, k) ELSE LoadMiss(p, k)
  /\ UNCHANGED <<maxAge, now, batchVars>>

\* a goroutine calls GetPriceFor(k)
Call(p) ==
  /\ pc[p] = "idle"
  /\ Budget >= 1
  /\ \E k \in Keys : Load(p, k)

\* cache.go:40  price, err := c.actualPriceService.GetPriceFor(itemCode)
UpstreamOutcomes ==
  [price : Prices, err : {NoErr}, at : {now}]
    \cup [price : {0}, err : Errors, at : {now}]

CallUpstream(p) ==
  /\ pc[p] = "upstream"
  /\ \E o \in UpstreamOutcomes : up' = [up EXCEPT ![p] = o]
  /\ calls' = [calls EXCEPT ![ic[p]] = @ + 1]
  /\ pc' = [pc EXCEPT ![p] = "fetched"]
  /\ UNCHANGED <<cacheVars, maxAge, ic, ret, now, histVars, batchVars>>

\* a failure that leaves the zero price in the map
UpstreamFailed_CachesZero(p) ==
  /\ ret' = [ret EXCEPT ![p] =
               [price |-> 0, err |-> Wrap(up[p].err), at |-> 0]]
  /\ prices' = Put(prices, ic[p], 0)
  /\ fetchedAt' = Put(fetchedAt, ic[p], up[p].at)

\* cache.go:41-43  if err != nil { return 0, fmt.Errorf(...) }
UpstreamFailed(p) ==
  /\ ret' = [ret EXCEPT ![p] =
               [price |-> 0, err |-> Wrap(up[p].err), at |-> 0]]
  /\ UNCHANGED cacheVars

\* a Store that leaves a half-written entry in the map
StoreFetched_Torn(p) ==
  /\ prices' = Put(prices, ic[p], 0)
  /\ fetchedAt' = Put(fetchedAt, ic[p], up[p].at)
  /\ ret' = [ret EXCEPT ![p] =
               [price |-> up[p].price, err |-> NoErr, at |-> up[p].at]]

\* a Store whose entry is as old as maxAge from the start
StoreFetched_Expired(p) ==
  /\ prices' = Put(prices, ic[p], up[p].price)
  /\ fetchedAt' = Put(fetchedAt, ic[p], up[p].at - maxAge)
  /\ ret' = [ret EXCEPT ![p] =
               [price |-> up[p].price, err |-> NoErr, at |-> up[p].at]]

\* cache.go:44-45  c.prices.Store(itemCode, price); return price.(float64), nil
StoreFetched(p) ==
  /\ prices' = Put(prices, ic[p], up[p].price)
  /\ fetchedAt' = Put(fetchedAt, ic[p], up[p].at)
  /\ ret' = [ret EXCEPT ![p] =
               [price |-> up[p].price, err |-> NoErr, at |-> up[p].at]]

\* cache.go:41-45  the rest of GetPriceFor after the upstream call
Finish(p) ==
  /\ pc[p] = "fetched"
  /\ IF up[p].err # NoErr THEN UpstreamFailed(p) ELSE StoreFetched(p)
  /\ lastFailed' = [lastFailed EXCEPT ![ic[p]] = up[p].err # NoErr]
  /\ failedAlone' = [failedAlone EXCEPT ![ic[p]] =
                       up[p].err # NoErr /\ alone[p]]
  /\ alone' = [alone EXCEPT ![p] = TRUE]
  /\ pc' = [pc EXCEPT ![p] = RetPc(p)]
  /\ up' = [up EXCEPT ![p] = Zero]
  /\ UNCHANGED <<maxAge, ic, now, calls, batchVars>>

\* cache.go:38, 42, 45  the caller has GetPriceFor's return values
Return(p) ==
  /\ pc[p] = "done"
  /\ pc' = [pc EXCEPT ![p] = "idle"]
  /\ ret' = [ret EXCEPT ![p] = Zero]
  /\ UNCHANGED <<cacheVars, maxAge, ic, up, now, calls, histVars, batchVars>>

\* time passes
Tick ==
  /\ now < MaxTime
  /\ now' = now + 1
  /\ UNCHANGED <<prices, maxAge, pc, ic, up, ret, calls, fetchedAt, histVars,
                 batchVars>>

\* ------------------------------------------------------ GetPricesFor
\* the argument lists of GetPricesFor, up to MaxBatch item codes
RECURSIVE SeqsUpTo(_)
SeqsUpTo(n) ==
  IF n = 0 THEN {<< >>}
  ELSE LET S == SeqsUpTo(n - 1) IN
         S \cup {Append(s, k) : s \in {t \in S : Len(t) = n - 1}, k \in Keys}

Launched == 1..Len(itemCodes)

\* cache.go:50-73  the locals are set up and g.Go starts one goroutine per
\* item code, each with its own copy ic of the loop variable
BatchStart ==
  /\ bpc = "idle"
  /\ \E codes \in SeqsUpTo(MaxBatch) :
       /\ Budget >= Len(codes)
       /\ itemCodes' = codes
       /\ pc' = [p \in Procs |->
                   IF p \in 1..Len(codes) THEN "t57" ELSE pc[p]]
       /\ ic' = [p \in Procs |->
                   IF p \in 1..Len(codes) THEN codes[p] ELSE ic[p]]
  /\ results' = << >>
  /\ mu' = 0
  /\ gerr' = NoErr
  /\ bpc' = "waiting"
  /\ UNCHANGED <<cacheVars, maxAge, up, ret, bret, now, calls, histVars,
                 failOrder>>

\* cache.go:57  if price, ok := c.prices.Load(ic); ok { ... }
TaskLoad(p) ==
  /\ pc[p] = "t57"
  /\ IF Hit(ic[p])
       THEN /\ ret' = [ret EXCEPT ![p] =
                         [price |-> prices[ic[p]], err |-> NoErr,
                          at |-> fetchedAt[ic[p]]]]
            /\ pc' = [pc EXCEPT ![p] = "lock"]
       ELSE /\ pc' = [pc EXCEPT ![p] = "t63"]
            /\ UNCHANGED ret
  /\ UNCHANGED <<cacheVars, maxAge, ic, up, now, calls, histVars, batchVars>>

\* cache.go:63  price, err := c.GetPriceFor(ic): the task enters GetPriceFor
TaskCall(p) ==
  /\ pc[p] = "t63"
  /\ Load(p, ic[p])

\* an errgroup whose later errors replace the earlier ones
RecordErr_LastWins(e) == e

\* errgroup.Group.Go: errOnce.Do(func() { g.err = err }) keeps the first error
RecordErr(e) == IF gerr = NoErr THEN e ELSE gerr

\* cache.go:64-66  if err != nil { return err }
TaskFail(p) ==
  /\ gerr' = RecordErr(ret[p].err)
  /\ failOrder' = Append(failOrder, [task |-> p, err |-> ret[p].err])
  /\ pc' = [pc EXCEPT ![p] = "tdone"]
  /\ UNCHANGED cacheVars

\* a second Store that stamps the entry with the time of the Store
TaskStore_Restamp(p) ==
  /\ prices' = Put(prices, ic[p], ret[p].price)
  /\ fetchedAt' = Put(fetchedAt, ic[p], now)
  /\ pc' = [pc EXCEPT ![p] = "lock"]
  /\ UNCHANGED <<gerr, failOrder>>

\* cache.go:67  c.prices.Store(ic, price)
TaskStore(p) ==
  /\ prices' = Put(prices, ic[p], ret[p].price)
  /\ fetchedAt' = Put(fetchedAt, ic[p], ret[p].at)
  /\ pc' = [pc EXCEPT ![p] = "lock"]
  /\ UNCHANGED <<gerr, failOrder>>

\* cache.go:64-67  what the task does with GetPriceFor's return values
TaskAfter(p) ==
  /\ pc[p] = "t64"
  /\ IF ret[p].err # NoErr THEN TaskFail(p) ELSE TaskStore(p)
  /\ UNCHANGED <<maxAge, ic, up, ret, now, calls, histVars, itemCodes,
                 results, mu, bpc, bret>>

\* cache.go:58, 68  mu.Lock()
TaskLock(p) ==
  /\ pc[p] = "lock"
  /\ mu = 0
  /\ mu' = p
  /\ pc' = [pc EXCEPT ![p] = "append"]
  /\ UNCHANGED <<cacheVars, maxAge, ic, up, ret, now, calls, histVars,
                 itemCodes, results, gerr, bpc, bret, failOrder>>

\* an append that loses what other tasks appended
AppendResult_Overwrites(v) == <<v>>

\* an append that puts the new price in front
AppendResult_Prepend(v) == <<v>> \o results

\* cache.go:59, 69  results = append(results, price)
AppendResult(v) == Append(results, v)

TaskAppend(p) ==
  /\ pc[p] = "append"
  /\ results' = AppendResult(ret[p].price)
  /\ pc' = [pc EXCEPT ![p] = "unlock"]
  /\ UNCHANGED <<cacheVars, maxAge, ic, up, ret, now, calls, histVars,
                 itemCodes, mu, gerr, bpc, bret, failOrder>>

\* a task that returns with the mutex still locked
TaskUnlock_KeepsLock(p) ==
  /\ pc[p] = "unlock"
  /\ pc' = [pc EXCEPT ![p] = "tdone"]
  /\ UNCHANGED <<cacheVars, maxAge, ic, up, ret, now, calls, histVars,
                 itemCodes, results, mu, gerr, bpc, bret, failOrder>>

\* cache.go:60-61, 70-71  mu.Unlock(); return nil
TaskUnlock(p) ==
  /\ pc[p] = "unlock"
  /\ mu' = 0
  /\ pc' = [pc EXCEPT ![p] = "tdone"]
  /\ UNCHANGED <<cacheVars, maxAge, ic, up, ret, now, calls, histVars,
                 itemCodes, results, gerr, bpc, bret, failOrder>>

\* a Wait that gives up on the siblings at the first error
WaitReady_FirstError ==
  gerr # NoErr \/ \A p \in 1..Len(itemCodes) : pc[p] = "tdone"

\* errgroup.Group.Wait: g.wg.Wait() blocks until every goroutine is done
WaitReady == \A p \in Launched : pc[p] = "tdone"

\* a return that drops the errgroup's error
WaitResult_NoError == [prices |-> results, err |-> NoErr]

\* cache.go:74-77  if err := g.Wait(); err != nil { return []float64{}, err }
\*                 return results, nil
WaitResult ==
  IF gerr # NoErr THEN [prices |-> << >>, err |-> gerr]
  ELSE [prices |-> results, err |-> NoErr]

BatchWait ==
  /\ bpc = "waiting"
  /\ WaitReady
  /\ bret' = WaitResult
  /\ bpc' = "returned"
  /\ UNCHANGED <<cacheVars, maxAge, pc, ic, up, ret, now, calls, histVars,
                 itemCodes, results, mu, gerr, failOrder>>

\* ------------------------------------------------------ specifications
\* goroutines calling GetPriceFor while time passes
Next ==
  \/ \E p \in Callers : Call(p) /\ UNCHANGED obsVars
  \/ \E p \in Callers : CallUpstream(p) /\ UNCHANGED obsVars
  \/ \E p \in Callers : Finish(p) /\ UNCHANGED obsVars
  \/ \E p \in Callers : Return(p) /\ UNCHANGED obsVars
  \/ Tick /\ UNCHANGED obsVars

Spec == Init /\ [][Next]_vars

\* one GetPricesFor call on a cache that one earlier GetPriceFor call may
\* have filled
Warmer == MaxBatch + 1

WarmUp == bpc = "idle" /\ Call(Warmer)

WarmBatchStart == pc[Warmer] \in {"idle", "done"} /\ BatchStart

\* the steps of the tasks of the batch
TaskStep(p) ==
  \/ TaskLoad(p)
  \/ TaskCall(p)
  \/ TaskAfter(p)
  \/ TaskLock(p)
  \/ TaskAppend(p)
  \/ TaskUnlock(p)

NextBatch ==
  \/ WarmUp /\ UNCHANGED obsVars
  \/ WarmBatchStart /\ UNCHANGED obsVars
  \/ \E p \in Tasks : TaskLoad(p) /\ UNCHANGED obsVars
  \/ \E p \in Tasks : TaskCall(p) /\ UNCHANGED obsVars
  \/ \E p \in Tasks \cup {Warmer} : CallUpstream(p) /\ UNCHANGED obsVars
  \/ \E p \in Tasks \cup {Warmer} : Finish(p) /\ UNCHANGED obsVars
  \/ \E p \in Tasks : TaskAfter(p) /\ UNCHANGED obsVars
  \/ \E p \in Tasks : TaskLock(p) /\ UNCHANGED obsVars
  \/ \E p \in Tasks : TaskAppend(p) /\ UNCHANGED obsVars
  \/ \E p \in Tasks : TaskUnlock(p) /\ UNCHANGED obsVars
  \/ BatchWait /\ UNCHANGED obsVars

\* the clock stands still here, so one maxAge stands for all
InitBatch == Init /\ maxAge = MaxAge

SpecBatch == InitBatch /\ [][NextBatch]_vars

\* cache.go:40  the upstream call, with its answer kept in the history
ObservedUpstream(p) ==
  /\ CallUpstream(p)
  /\ returned' = [returned EXCEPT ![ic[p]] =
                    IF up'[p].err = NoErr THEN @ \cup {up'[p].price} ELSE @]
  /\ UNCHANGED snap

\* goroutines calling GetPriceFor at the same time on a cold cache
NextCold ==
  \/ \E p \in Callers : Call(p) /\ UNCHANGED obsVars
  \/ \E p \in Callers : ObservedUpstream(p)
  \/ \E p \in Callers : Finish(p) /\ UNCHANGED obsVars
  \/ \E p \in Callers : Return(p) /\ UNCHANGED obsVars

SpecCold == InitBatch /\ [][NextCold]_vars

\* one GetPricesFor call after one GetPriceFor call, with the answers of
\* upstream kept in the history
NextProv ==
  \/ WarmUp /\ UNCHANGED obsVars
  \/ WarmBatchStart /\ UNCHANGED obsVars
  \/ \E p \in Tasks : TaskStep(p) /\ UNCHANGED obsVars
  \/ \E p \in Tasks \cup {Warmer} : ObservedUpstream(p)
  \/ \E p \in Tasks \cup {Warmer} : Finish(p) /\ UNCHANGED obsVars
  \/ BatchWait /\ UNCHANGED obsVars

SpecProv == InitBatch /\ [][NextProv]_vars

\* one GetPricesFor call whose goroutines all keep running: the scheduler
\* runs every goroutine that can step, upstream answers every call, and
\* Wait returns once the goroutines are done
LiveTask(p) ==
  (TaskStep(p) \/ CallUpstream(p) \/ Finish(p)) /\ UNCHANGED obsVars

LiveWait == BatchWait /\ UNCHANGED obsVars

NextLive ==
  \/ BatchStart /\ UNCHANGED obsVars
  \/ \E p \in Tasks : LiveTask(p)
  \/ LiveWait

SpecLive ==
  /\ InitBatch
  /\ [][NextLive]_vars
  /\ \A p \in Tasks : WF_vars(LiveTask(p))
  /\ WF_vars(LiveWait)

\* one lookup at a time: earlier GetPriceFor calls fill the cache, then
\* either one GetPriceFor(k) call or one GetPricesFor(k) call runs on its
\* own, while time passes
Single == MaxBatch + 2

Quiet == bpc = "idle" /\ pc[Single] = "idle" /\ pc[Warmer] \in {"idle", "done"}

SingleCall == Quiet /\ Call(Single) /\ snap' = Snapshot /\ UNCHANGED returned

BatchOfOne ==
  /\ Quiet
  /\ BatchStart
  /\ Len(itemCodes') = 1
  /\ snap' = Snapshot
  /\ UNCHANGED returned

NextOne ==
  \/ Quiet /\ Call(Warmer) /\ UNCHANGED obsVars
  \/ Quiet /\ Return(Warmer) /\ UNCHANGED obsVars
  \/ SingleCall
  \/ BatchOfOne
  \/ \E p \in Tasks : TaskStep(p) /\ UNCHANGED obsVars
  \/ \E p \in Procs : CallUpstream(p) /\ UNCHANGED obsVars
  \/ \E p \in Procs : Finish(p) /\ UNCHANGED obsVars
  \/ BatchWait /\ UNCHANGED obsVars
  \/ Tick /\ UNCHANGED obsVars

SpecOne == Init /\ [][NextOne]_vars

\* ------------------------------------------------------------ claims
\* cache.go:19  "Cache should only return a price if it is not older than
\* maxAge": the entry for k is valid at time t
Valid(k, t) == t < fetchedAt[k] + maxAge

\* steps of one goroutine p
Entered(p) == pc[p] \in {"idle", "t63"} /\ pc'[p] # pc[p]
HitStep(p) == Entered(p) /\ pc'[p] = RetPc(p)
MissStep(p) == Entered(p) /\ pc'[p] = "upstream"
UpstreamStep(p) == pc[p] = "upstream" /\ pc'[p] = "fetched"
FailStep(p) == pc[p] = "fetched" /\ pc'[p] # "fetched" /\ up[p].err # NoErr
StoreStep(p) == pc[p] = "fetched" /\ pc'[p] # "fetched" /\ up[p].err = NoErr

\* C1: a GetPriceFor call returns the stored price as a cache hit only when
\* the entry is valid at the time of the call: now < fetchedAt + maxAge.
C1_HitOnlyWhenValid ==
  [][\A p \in Procs : HitStep(p) => Valid(ic'[p], now)]_vars

\* C2: a GetPriceFor(k) call that finds a valid entry returns that entry's
\* price, makes no upstream call and writes nothing to the store.
C2_ValidHitChangesNothing ==
  [][\A p \in Procs :
       (Entered(p) /\ Hit(ic'[p]) /\ Valid(ic'[p], now)) =>
         /\ pc'[p] = RetPc(p)
         /\ ret'[p].price = prices[ic'[p]]
         /\ ret'[p].err = NoErr
         /\ calls' = calls
         /\ prices' = prices
         /\ fetchedAt' = fetchedAt]_vars

\* two callers hold a price for the same code after one upstream call, and
\* the entry is still valid: one of them was served from the store
C2_Witness ==
  \E p, q \in Callers :
    /\ p # q /\ ic[p] = ic[q]
    /\ pc[p] = "done" /\ pc[q] = "done"
    /\ ret[p].err = NoErr /\ ret[q].err = NoErr
    /\ calls[ic[p]] = 1
    /\ Hit(ic[p]) /\ Valid(ic[p], now)

\* C3: a single GetPriceFor(k) call made later than fetchedAt + maxAge, with
\* no other call for k under way, invokes upstream (once) instead of
\* returning the stored price.
C3_ExpiredEntryRefetched ==
  [][\A p \in Procs :
       (Entered(p) /\ Hit(ic'[p]) /\ now > fetchedAt[ic'[p]] + maxAge
          /\ OthersIn(p, ic'[p]) = {}) =>
         MissStep(p)]_vars

\* C4: when the upstream lookup fails, GetPriceFor returns price 0 with an
\* error and writes nothing to the store; the store never holds the zero
\* placeholder or anything but a price for any key.
C4_FailureStoresNothing ==
  /\ [](\A k \in DOMAIN prices : prices[k] \in Prices)
  /\ [][\A p \in Procs :
          FailStep(p) =>
            /\ ret'[p].price = 0
            /\ ret'[p].err = Wrap(up[p].err)
            /\ prices' = prices
            /\ fetchedAt' = fetchedAt]_vars

\* a call has returned an error and its code has no entry
C4_Witness ==
  \E p \in Callers :
    pc[p] = "done" /\ ret[p].err # NoErr /\ ~Hit(ic[p])

\* C5 as stated: after a GetPriceFor(k) call that failed, the next
\* GetPriceFor(k) call (no call for k entering or returning in between)
\* always invokes upstream again.
C5_NextCallRetries ==
  [][\A p \in Procs : (Entered(p) /\ lastFailed[ic'[p]]) => MissStep(p)]_vars

\* C5 amended: after a GetPriceFor(k) call that failed and that no other
\* call for k overlapped, the next GetPriceFor(k) call invokes upstream
\* again, exactly once, whatever time has passed, and returns what upstream
\* answers then (its price, or its error wrapped).
C5_NextCallRetriesWhenAlone ==
  /\ [][\A p \in Procs :
          (Entered(p) /\ failedAlone[ic'[p]]) => MissStep(p)]_vars
  /\ [][\A p \in Procs :
          UpstreamStep(p) =>
            /\ calls'[ic[p]] = calls[ic[p]] + 1
            /\ \A k \in Keys \ {ic[p]} : calls'[k] = calls[k]]_vars
  /\ [][\A p \in Procs :
          /\ FailStep(p) => ret'[p].err = Wrap(up[p].err)
          /\ StoreStep(p) =>
                ret'[p].price = up[p].price /\ ret'[p].err = NoErr]_vars

\* a retry after a lone failure, at a later time, has come back with a price
C5_Witness ==
  \E p \in Callers :
    /\ pc[p] = "done" /\ ret[p].err = NoErr /\ ret[p].at > 0
    /\ calls[ic[p]] = 2
    /\ \A q \in Callers \ {p} : pc[q] = "idle" /\ calls[ic[q]] = 0

\* the tasks of the batch by outcome of their lookup
Failed == {p \in Launched : ret[p].err # NoErr}
Succeeded == {p \in Launched : ret[p].err = NoErr}

Count(seq, v) == Cardinality({i \in 1..Len(seq) : seq[i] = v})

\* C6: GetPricesFor returns a non-nil error if the lookup of at least one
\* listed item code failed, and no error if all lookups succeeded.
C6_AllOrError ==
  bpc = "returned" => (bret.err # NoErr <=> Failed # {})

\* batches of MaxBatch codes have returned one with an error after a
\* sibling succeeded
C6_Witness ==
  /\ bpc = "returned" /\ Len(itemCodes) >= 2
  /\ Failed # {} /\ Succeeded # {}
  /\ bret.err # NoErr

\* C7: when a batch partly fails, GetPricesFor returns, with the error, the
\* prices of the tasks that succeeded: as many elements as tasks succeeded,
\* each succeeded task's price among them, no zero placeholder.
C7_PartialResultsReturned ==
  (bpc = "returned" /\ bret.err # NoErr) =>
    /\ Len(bret.prices) = Cardinality(Succeeded)
    /\ \A p \in Succeeded : Count(bret.prices, ret[p].price) >= 1
    /\ Count(bret.prices, 0) = 0

\* C8: when all lookups succeed, GetPricesFor(k1..kn) returns exactly n
\* prices, and they are, as a multiset, the prices the n tasks resolved.
C8_AllPricesReturned ==
  (bpc = "returned" /\ Failed = {}) =>
    /\ bret.err = NoErr
    /\ Len(bret.prices) = Len(itemCodes)
    /\ \A v \in Prices \cup {0} :
         Count(bret.prices, v) =
           Cardinality({p \in Launched : ret[p].price = v})

\* a batch of two or more codes has returned two different prices
C8_Witness ==
  /\ bpc = "returned" /\ Failed = {} /\ Len(itemCodes) >= 2
  /\ \E i, j \in 1..Len(bret.prices) : bret.prices[i] # bret.prices[j]

\* C9: GetPricesFor returns only after every task it launched has finished
\* its lookup, also when a sibling has failed: every task is done, a failed
\* task has had its upstream call, a task that succeeded has its code in the
\* store and its price in results.
C9_WaitsForAllTasks ==
  bpc = "returned" =>
    \A p \in Launched :
      /\ pc[p] = "tdone"
      /\ p \in Failed => calls[ic[p]] >= 1
      /\ p \in Succeeded => Hit(ic[p]) /\ Count(results, ret[p].price) >= 1

\* a batch has returned an error, and the sibling of the failed task has
\* fetched and stored its price
C9_Witness ==
  /\ bpc = "returned" /\ bret.err # NoErr
  /\ \E p \in Failed, q \in Succeeded :
       ic[p] # ic[q] /\ calls[ic[q]] = 1 /\ Hit(ic[q]) /\ pc[Warmer] = "idle"

\* C10: when several tasks fail, the error GetPricesFor returns is the error
\* of the task that failed first, and it is an error one of the failing
\* tasks got from GetPriceFor.
C10_FirstErrorWins ==
  (bpc = "returned" /\ Len(failOrder) > 0) =>
    /\ bret.err = failOrder[1].err
    /\ \E p \in Failed : ret[p].err = bret.err

\* two tasks have failed with different errors
C10_Witness ==
  /\ bpc = "returned" /\ Len(failOrder) >= 2
  /\ failOrder[1].err # failOrder[2].err

\* every caller has returned from GetPriceFor(k)
AllDoneOn(k) == \A p \in Callers : pc[p] = "done" /\ ic[p] = k
\* the callers that hold a price for k
Priced(k) ==
  {p \in Callers : pc[p] = "done" /\ ic[p] = k /\ ret[p].err = NoErr}

\* C11 as stated: once all the concurrent GetPriceFor(k) calls on an absent
\* key have returned, the store holds an entry for k whose price upstream
\* returned for k, and every call returned a price upstream returned for k.
C11_ColdCallsLeaveOneEntry ==
  \A k \in Keys :
    (AllDoneOn(k) /\ calls[k] = Cardinality(Callers)) =>
      /\ Hit(k) /\ prices[k] \in returned[k]
      /\ \A p \in Callers : ret[p].err = NoErr /\ ret[p].price \in returned[k]

\* C11 amended: once all the concurrent GetPriceFor(k) calls on an absent
\* key have returned, every call that returned without error returned a
\* price upstream returned for k; if at least one did, the store holds one
\* entry for k and its price is the one such a call got from upstream; if
\* none did, the store holds no entry for k.
C11_ColdCallsLeaveFetchedEntry ==
  \A k \in Keys :
    (AllDoneOn(k) /\ calls[k] = Cardinality(Callers)) =>
      /\ \A p \in Priced(k) : ret[p].price \in returned[k]
      /\ Priced(k) # {} =>
           /\ Hit(k) /\ prices[k] \in returned[k]
           /\ \E p \in Priced(k) : prices[k] = ret[p].price
      /\ Priced(k) = {} => ~Hit(k)

\* both callers missed on k and came back with different prices; the store
\* holds one of them
C11_Witness ==
  \E k \in Keys :
    /\ AllDoneOn(k) /\ calls[k] = Cardinality(Callers)
    /\ Priced(k) = Callers /\ Hit(k)
    /\ \E p, q \in Callers : ret[p].price # ret[q].price

\* C12: no single-flight: every GetPriceFor(k) call that loads the store
\* while k is absent goes on to its own upstream call, also when another
\* call for k is under way; each such call raises the count for k by one
\* and is never made to wait for the other's result.
C12_NoSingleFlight ==
  /\ [][\A p \in Procs :
          (Entered(p) /\ ~Hit(ic'[p])) => MissStep(p)]_vars
  /\ [][\A p \in Procs :
          pc[p] = "upstream" /\ pc'[p] # "upstream" =>
            /\ pc'[p] = "fetched"
            /\ calls'[ic[p]] = calls[ic[p]] + 1]_vars
  /\ [](\A p \in Callers :
          pc[p] = "upstream" => ENABLED CallUpstream(p))
  /\ [](\A k \in Keys :
          calls[k] >=
            Cardinality({p \in Callers : ic[p] = k /\ pc[p] = "fetched"}))

\* two calls for the same absent code have both had their upstream call
C12_Witness ==
  \E p, q \in Callers :
    /\ p # q /\ ic[p] = ic[q] /\ ~Hit(ic[p])
    /\ pc[p] = "fetched" /\ pc[q] = "fetched"
    /\ calls[ic[p]] = 2

StoredEntry(k) == [price |-> prices[k]]

\* C14: the fetchedAt of each stored entry is the time at which the price
\* stored in that entry was retrieved from upstream.
C14_FetchedAtIsFetchTime ==
  \A k \in DOMAIN prices :
    /\ "fetchedAt" \in DOMAIN StoredEntry(k)
    /\ StoredEntry(k).fetchedAt = fetchedAt[k]

ValidAfter(k) == k \in DOMAIN prices' /\ now' < fetchedAt'[k] + maxAge'

C17_AppendOrder ==
  /\ [][(bpc = "waiting" /\ results' # results) =>
          \E p \in Launched :
            /\ pc[p] = "append" /\ pc'[p] = "unlock"
            /\ results' = Append(results, ret[p].price)]_vars
  /\ [](bpc = "returned" /\ bret.err = NoErr => bret.prices = results)

\* a batch of two different item codes has returned the second code's
\* price before the first code's
C17_Witness ==
  /\ bpc = "returned" /\ bret.err = NoErr
  /\ Len(itemCodes) = 2 /\ itemCodes[1] # itemCodes[2]
  /\ ret[1].price # ret[2].price
  /\ bret.prices = <<ret[2].price, ret[1].price>>

\* what upstream can answer at any time
AnyOutcome ==
  [price : Prices, err : {NoErr}, at : 0..MaxTime]
    \cup [price : {0}, err : Errors, at : 0..MaxTime]

\* cache.go:34-46  GetPriceFor(k) run on its own from the state s, with o
\* the answer of upstream should it be asked: the state and the values it
\* returns
GetPriceForSeq(s, k, o) ==
  IF k \in DOMAIN s.prices
    THEN [prices |-> s.prices, fetchedAt |-> s.fetchedAt, calls |-> s.calls,
          price |-> s.prices[k], err |-> NoErr, at |-> s.fetchedAt[k]]
  ELSE IF o.err # NoErr
    THEN [prices |-> s.prices, fetchedAt |-> s.fetchedAt,
          calls |-> [s.calls EXCEPT ![k] = @ + 1],
          price |-> 0, err |-> Wrap(o.err), at |-> 0]
  ELSE [prices |-> Put(s.prices, k, o.price),
        fetchedAt |-> Put(s.fetchedAt, k, o.at),
        calls |-> [s.calls EXCEPT ![k] = @ + 1],
        price |-> o.price, err |-> NoErr, at |-> o.at]

\* the store and the call counts are those of the result r
SameEffect(r) ==
  prices = r.prices /\ fetchedAt = r.fetchedAt /\ calls = r.calls

\* C18: GetPricesFor(k) on one item code has the same effect as
\* GetPriceFor(k): from every store state, at every time and for every
\* answer of upstream, both leave the store, the fetch times and the
\* upstream call counts that GetPriceFor(k) run on its own leaves, and
\* return its price (as the one element of the result) or its error.
C18_BatchOfOneIsSingle ==
  /\ pc[Single] = "done" =>
       \E o \in AnyOutcome :
         LET r == GetPriceForSeq(snap, ic[Single], o) IN
           /\ SameEffect(r)
           /\ ret[Single] = [price |-> r.price, err |-> r.err, at |-> r.at]
  /\ (bpc = "returned" /\ Len(itemCodes) = 1) =>
       \E o \in AnyOutcome :
         LET r == GetPriceForSeq(snap, itemCodes[1], o) IN
           /\ SameEffect(r)
           /\ ret[1] = [price |-> r.price, err |-> r.err, at |-> r.at]
           /\ bret.err = r.err
           /\ bret.prices = IF r.err = NoErr THEN <<r.price>> ELSE << >>

\* a batch of one item code has returned a price it fetched from upstream,
\* on a cache that held another item code, after time had passed
C18_Witness ==
  /\ bpc = "returned" /\ Len(itemCodes) = 1 /\ bret.err = NoErr
  /\ calls[itemCodes[1]] = snap.calls[itemCodes[1]] + 1
  /\ snap.prices # << >> /\ now > fetchedAt[itemCodes[1]]

\* the goroutines that hold the return values of a GetPriceFor call or of
\* the Load at cache.go:57
HasResult(p) == pc[p] \in {"done", "t64", "lock", "append", "unlock", "tdone"}

\* C19: every price GetPriceFor(k) returns without error, every price in
\* the store and every element of a GetPricesFor result is a price that
\* upstream returned for that same item code on this cache; none is the
\* zero value.
C19_Provenance ==
  /\ \A p \in Procs :
       (HasResult(p) /\ ret[p].err = NoErr) =>
         ret[p].price \in returned[ic[p]] /\ ret[p].price # 0
  /\ \A k \in DOMAIN prices : prices[k] \in returned[k]
  /\ (bpc = "returned" /\ bret.err = NoErr) =>
       /\ Len(bret.prices) = Len(itemCodes)
       /\ \A i \in 1..Len(bret.prices) :
            /\ bret.prices[i] # 0
            /\ \E p \in Launched :
                 /\ bret.prices[i] = ret[p].price
                 /\ bret.prices[i] \in returned[itemCodes[p]]
       /\ \A p \in Launched :
            Count(bret.prices, ret[p].price) >=
              Cardinality({q \in Launched : ret[q].price = ret[p].price})

\* a batch of two item codes for which upstream returned different prices
\* has returned, one of the prices having been stored by an earlier call
C19_Witness ==
  /\ bpc = "returned" /\ bret.err = NoErr /\ Len(bret.prices) = 2
  /\ itemCodes[1] # itemCodes[2]
  /\ returned[itemCodes[1]] \cap returned[itemCodes[2]] = {}
  /\ pc[Warmer] = "done" /\ ret[Warmer].err = NoErr
  /\ SumCalls(Keys) = 2

\* C20: every GetPricesFor call returns, for every list of item codes, the
\* empty list and lists with repeated codes included, whether the lookups
\* succeed or fail; the mutex is held only by a task that is at its append
\* or about to unlock, never by a task that is in an upstream call or has
\* finished.
C20_BatchTerminates ==
  /\ (bpc = "waiting") ~> (bpc = "returned")
  /\ [](mu # 0 => pc[mu] \in {"append", "unlock"})
  /\ [](\A p \in Tasks : pc[p] \in {"append", "unlock"} => mu = p)

\* a batch that names the same item code twice has returned after one of
\* its tasks failed and the other appended its price
C20_Witness ==
  /\ bpc = "returned" /\ mu = 0
  /\ Len(itemCodes) = 2 /\ itemCodes[1] = itemCodes[2]
  /\ gerr # NoErr /\ Len(results) = 1

====
